---- MODULE Spec2Model ----
(***************************************************************************)
(* forallpeople: the Physical value type, its dimension algebra, the units *)
(* environment (catalog) and the representation of a Physical under the    *)
(* active environment.                                                     *)
(*                                                                         *)
(* A Physical is a record (value, dimensions, factor, precision, prefixed).*)
(* Magnitudes, factors and dimension exponents are exact rationals         *)
(* [n |-> numerator, d |-> denominator > 0] in lowest terms.               *)
(***************************************************************************)
EXTENDS Integers, Sequences, FiniteSets, TLC

(***************************************************************************)
(* Bounds of the model.                                                    *)
(***************************************************************************)
\* longest chain of operations applied to one literal
MaxChain == 1
\* largest absolute dimension exponent kept in the accumulator
MaxExp == 2
\* largest numerator / denominator of a magnitude kept in the accumulator
MaxNum == 8
\* largest numerator / denominator of a factor kept in the accumulator
MaxFactor == 1250

(***************************************************************************)
(* Exact rationals.                                                        *)
(***************************************************************************)
AbsInt(i) == IF i < 0 THEN -i ELSE i

\* the element of a one-element set: The({f(x) : x \in {e}}) is f(e) with e
\* evaluated once
The(S) == CHOOSE x \in S : TRUE

RECURSIVE GCD(_, _)
GCD(i, j) == IF j = 0 THEN i ELSE The({GCD(j, r) : r \in {i % j}})

Rat(n, d) ==
    LET g == GCD(AbsInt(n), AbsInt(d))
        s == IF d < 0 THEN -1 ELSE 1
    IN  [n |-> (s * n) \div g, d |-> (s * d) \div g]

RInt(i) == [n |-> i, d |-> 1]

RZero == RInt(0)

ROne == RInt(1)

RAdd(a, b) == Rat(a.n * b.d + b.n * a.d, a.d * b.d)

RNeg(a) == [n |-> -a.n, d |-> a.d]

RSub(a, b) == RAdd(a, RNeg(b))

RMul(a, b) ==
    LET g1 == GCD(AbsInt(a.n), b.d)
        g2 == GCD(AbsInt(b.n), a.d)
    IN  Rat((a.n \div g1) * (b.n \div g2), (a.d \div g2) * (b.d \div g1))

RInv(a) == Rat(a.d, a.n)

RDiv(a, b) == RMul(a, RInv(b))

RAbs(a) == [n |-> AbsInt(a.n), d |-> a.d]

RECURSIVE IntPow(_, _)
IntPow(i, k) == IF k = 0 THEN 1 ELSE i * IntPow(i, k - 1)

\* the exact k-th root of a natural number, or -1 when it has none
IntRoot(i, k) ==
    IF \E r \in 0..i : IntPow(r, k) = i
    THEN CHOOSE r \in 0..i : IntPow(r, k) = i
    ELSE -1

\* a ** e is a rational number: a fractional power needs exact roots
HasExactPower(a, e) ==
    e.d > 1 => /\ a.n >= 0
               /\ IntRoot(a.n, e.d) >= 0
               /\ IntRoot(a.d, e.d) >= 0

\* a ** e for a rational exponent e: the e.d-th root, then the e.n-th power
RPow(a, e) ==
    LET r == IF e.d = 1 THEN a ELSE Rat(IntRoot(a.n, e.d), IntRoot(a.d, e.d))
        k == AbsInt(e.n)
        p == [n |-> IntPow(r.n, k), d |-> IntPow(r.d, k)]
    IN  IF e.n < 0 THEN RInv(p) ELSE p

(***************************************************************************)
(* Dimensions: the vector (kg, m, s, A, cd, K, mol) of exponents.          *)
(***************************************************************************)
Dimensions(kg, m, s, A, cd, K, mol) ==
    <<RInt(kg), RInt(m), RInt(s), RInt(A), RInt(cd), RInt(K), RInt(mol)>>

ZeroDimensions == Dimensions(0, 0, 0, 0, 0, 0, 0)

VecAdd(a, b) == [i \in 1..7 |-> RAdd(a[i], b[i])]

VecSub(a, b) == [i \in 1..7 |-> RSub(a[i], b[i])]

VecMultiply(a, k) == [i \in 1..7 |-> RMul(a[i], k)]

IsZero(a) == \A i \in 1..7 : a[i].n = 0

(***************************************************************************)
(* Values: a Physical, a bare number (float), or a raised error.           *)
(***************************************************************************)
Physical(value, dimensions, factor, precision, prefixed) ==
    [kind |-> "Physical", value |-> value, dimensions |-> dimensions,
     factor |-> factor, precision |-> precision, prefixed |-> prefixed]

Float(value) == [kind |-> "float", value |-> value]

Raise(error) == [kind |-> "error", error |-> error]

None == [kind |-> "None"]

IsPhysical(v) == v.kind = "Physical"

IsFloat(v) == v.kind = "float"

IsError(v) == v.kind = "error"

\* the default display precision
DefaultPrecision == 3

\* Reduce without the cancellation: a Physical whatever the dimensions
ReduceKeepsPhysical(value, dimensions, factor, precision, prefixed) ==
    Physical(value, dimensions, factor, precision, prefixed)

\* a quantity whose dimensions cancel completely is just a number
Reduce(value, dimensions, factor, precision, prefixed) ==
    IF IsZero(dimensions)
    THEN Float(value)
    ELSE Physical(value, dimensions, factor, precision, prefixed)

(***************************************************************************)
(* Arithmetic on Physical instances.  An operand is a Physical or a bare   *)
(* number; errors are named as in the design (DimensionMismatch,           *)
(* InvalidOperand, UnknownUnit); a division by a zero magnitude raises the *)
(* host language's ZeroDivisionError.                                      *)
(***************************************************************************)
\* AddPhysicals taking the units of the right operand
AddPhysicalsRight(a, b) ==
    Physical(RAdd(a.value, b.value), a.dimensions, b.factor, b.precision,
             b.prefixed)

\* result of adding two Physicals of equal dimensions: the left operand's
\* dimensions, factor, precision and prefix
AddPhysicals(a, b) ==
    Physical(RAdd(a.value, b.value), a.dimensions, a.factor, a.precision,
             a.prefixed)

\* a number added to a Physical q is taken in q's base units
AddNumber(q, x) ==
    Physical(RAdd(q.value, x), q.dimensions, q.factor, q.precision, q.prefixed)

\* Add refusing operands of equal dimensions shown in different units
AddSameUnits(a, b) ==
    IF IsPhysical(a) /\ IsPhysical(b)
    THEN IF a.dimensions = b.dimensions /\ a.factor = b.factor
         THEN AddPhysicals(a, b)
         ELSE Raise("DimensionMismatch")
    ELSE IF IsPhysical(a)
         THEN AddNumber(a, b.value)
         ELSE AddNumber(b, a.value)

Add(a, b) ==
    IF IsPhysical(a) /\ IsPhysical(b)
    THEN IF a.dimensions = b.dimensions
         THEN AddPhysicals(a, b)
         ELSE Raise("DimensionMismatch")
    ELSE IF IsPhysical(a)
         THEN AddNumber(a, b.value)
         ELSE AddNumber(b, a.value)

Sub(a, b) ==
    IF IsPhysical(a) /\ IsPhysical(b)
    THEN IF a.dimensions = b.dimensions
         THEN AddPhysicals(a, [b EXCEPT !.value = RNeg(b.value)])
         ELSE Raise("DimensionMismatch")
    ELSE IF IsPhysical(a)
         THEN AddNumber(a, RNeg(b.value))
         ELSE AddNumber([b EXCEPT !.value = RNeg(b.value)], a.value)

\* a Physical multiplied by a number keeps its units
Scaled(q, x) ==
    Physical(RMul(q.value, x), q.dimensions, q.factor, q.precision, q.prefixed)

\* Mul returning a Physical even when the dimensions cancel
MulKeepsPhysical(a, b) ==
    IF IsPhysical(a) /\ IsPhysical(b)
    THEN Physical(RMul(a.value, b.value), VecAdd(a.dimensions, b.dimensions),
                  RMul(a.factor, b.factor), a.precision, "")
    ELSE IF IsPhysical(a)
         THEN Scaled(a, b.value)
         ELSE Scaled(b, a.value)

Mul(a, b) ==
    IF IsPhysical(a) /\ IsPhysical(b)
    THEN Reduce(RMul(a.value, b.value), VecAdd(a.dimensions, b.dimensions),
                RMul(a.factor, b.factor), a.precision, "")
    ELSE IF IsPhysical(a)
         THEN Scaled(a, b.value)
         ELSE Scaled(b, a.value)

\* TrueDiv dividing by the number the divisor is shown as
TrueDivByShown(a, b) ==
    IF b.value.n = 0
    THEN Raise("ZeroDivisionError")
    ELSE IF IsPhysical(a) /\ IsPhysical(b)
         THEN Reduce(RDiv(a.value, RMul(b.value, b.factor)),
                     VecSub(a.dimensions, b.dimensions),
                     RDiv(a.factor, b.factor), a.precision, "")
         ELSE IF IsPhysical(a)
              THEN Scaled(a, RInv(b.value))
              ELSE Physical(RDiv(a.value, b.value),
                            VecMultiply(b.dimensions, RInt(-1)),
                            RInv(b.factor), b.precision, "")

TrueDiv(a, b) ==
    IF b.value.n = 0
    THEN Raise("ZeroDivisionError")
    ELSE IF IsPhysical(a) /\ IsPhysical(b)
         THEN Reduce(RDiv(a.value, b.value),
                     VecSub(a.dimensions, b.dimensions),
                     RDiv(a.factor, b.factor), a.precision, "")
         ELSE IF IsPhysical(a)
              THEN Scaled(a, RInv(b.value))
              ELSE Physical(RDiv(a.value, b.value),
                            VecMultiply(b.dimensions, RInt(-1)),
                            RInv(b.factor), b.precision, "")

\* Pow returning a Physical even when the dimensions cancel
PowKeepsPhysical(a, n) ==
    IF IsPhysical(n)
    THEN Raise("InvalidOperand")
    ELSE IF a.value.n = 0 /\ n.value.n < 0
         THEN Raise("ZeroDivisionError")
         ELSE Physical(RPow(a.value, n.value),
                       VecMultiply(a.dimensions, n.value),
                       RPow(a.factor, n.value), a.precision, "")

\* Pow taking the magnitude of a Physical exponent as the exponent
PowUnchecked(a, n) ==
    IF a.value.n = 0 /\ n.value.n < 0
    THEN Raise("ZeroDivisionError")
    ELSE Reduce(RPow(a.value, n.value),
                VecMultiply(a.dimensions, n.value),
                RPow(a.factor, n.value), a.precision, "")

Pow(a, n) ==
    IF IsPhysical(n)
    THEN Raise("InvalidOperand")
    ELSE IF a.value.n = 0 /\ n.value.n < 0
         THEN Raise("ZeroDivisionError")
         ELSE Reduce(RPow(a.value, n.value),
                     VecMultiply(a.dimensions, n.value),
                     RPow(a.factor, n.value), a.precision, "")

Sqrt(a, n) == Pow(a, Float(Rat(1, n)))

Neg(a) == Mul(a, Float(RInt(-1)))

Abs(a) ==
    Physical(RAbs(a.value), a.dimensions, a.factor, a.precision, a.prefixed)

Round(a, n) ==
    Physical(a.value, a.dimensions, a.factor, n, a.prefixed)

Prefix(a, p) ==
    Physical(a.value, a.dimensions, a.factor, a.precision, p)

\* Split giving the number shown instead of the value
SplitShown(a) ==
    [kind |-> "tuple",
     first |-> Float(RMul(a.value, a.factor)),
     second |-> Physical(ROne, a.dimensions, a.factor, a.precision, "")]

Split(a) ==
    [kind |-> "tuple",
     first |-> Float(a.value),
     second |-> Physical(ROne, a.dimensions, a.factor, a.precision, "")]

\* the entries of the environment named unit_name
Named(env, unit_name) == {i \in DOMAIN env : env[i].name = unit_name}

\* the entry of the environment that .to(unit_name) uses
NamedUnit(env, unit_name) == env[CHOOSE i \in Named(env, unit_name) : TRUE]

\* ToError without the comparison of dimensions
ToErrorByName(a, unit_name, env) ==
    IF Named(env, unit_name) = {}
    THEN Raise("UnknownUnit")
    ELSE None

\* why a cannot be shown in unit_name, or None
ToError(a, unit_name, env) ==
    IF Named(env, unit_name) = {}
    THEN Raise("UnknownUnit")
    ELSE IF NamedUnit(env, unit_name).dimensions # a.dimensions
         THEN Raise("DimensionMismatch")
         ELSE None

\* To converting the stored value into the unit
ToRescales(a, unit_name, env) ==
    IF ToError(a, unit_name, env) # None
    THEN ToError(a, unit_name, env)
    ELSE Physical(RMul(a.value, NamedUnit(env, unit_name).factor),
                  a.dimensions, NamedUnit(env, unit_name).factor,
                  a.precision, a.prefixed)

To(a, unit_name, env) ==
    IF ToError(a, unit_name, env) # None
    THEN ToError(a, unit_name, env)
    ELSE Physical(a.value, a.dimensions, NamedUnit(env, unit_name).factor,
                  a.precision, a.prefixed)

(***************************************************************************)
(* Factor expressions: a string of digits, decimal points, parentheses and *)
(* + - * /, given as its sequence of characters and evaluated exactly.     *)
(***************************************************************************)
DigitChars == <<"0", "1", "2", "3", "4", "5", "6", "7", "8", "9">>

Digits == {DigitChars[i] : i \in DOMAIN DigitChars}

DigitValue(c) == (CHOOSE i \in DOMAIN DigitChars : DigitChars[i] = c) - 1

ArithmeticChars == Digits \cup {".", "(", ")", "+", "-", "*", "/"}

\* only numbers and arithmetic symbols, no alphabetic characters
IsArithmetic(s) == \A i \in DOMAIN s : s[i] \in ArithmeticChars

NoParse == [ok |-> FALSE, val |-> RZero, rest |-> <<>>]

RECURSIVE ScanDigits(_, _, _)
ScanDigits(s, val, len) ==
    IF s # <<>> /\ Head(s) \in Digits
    THEN The({ScanDigits(Tail(s), v, len + 1) :
                 v \in {10 * val + DigitValue(Head(s))}})
    ELSE [val |-> val, len |-> len, rest |-> s]

\* a decimal literal as the exact fraction it denotes
ParseNumber(s) ==
    The({IF whole.rest # <<>> /\ Head(whole.rest) = "."
         THEN The({[ok |-> whole.len + frac.len > 0,
                    val |-> Rat(whole.val * IntPow(10, frac.len) + frac.val,
                                IntPow(10, frac.len)),
                    rest |-> frac.rest] :
                      frac \in {ScanDigits(Tail(whole.rest), 0, 0)}})
         ELSE [ok |-> whole.len > 0, val |-> RInt(whole.val),
               rest |-> whole.rest] :
             whole \in {ScanDigits(s, 0, 0)}})

RECURSIVE ParseExpr(_), ParseTerm(_), ParseAtom(_), ExprTail(_), TermTail(_)
ParseAtom(s) ==
    IF s = <<>>
    THEN NoParse
    ELSE IF Head(s) = "("
    THEN The({IF e.ok /\ e.rest # <<>> /\ Head(e.rest) = ")"
              THEN [e EXCEPT !.rest = Tail(e.rest)]
              ELSE NoParse : e \in {ParseExpr(Tail(s))}})
    ELSE IF Head(s) = "-"
    THEN The({IF u.ok THEN [u EXCEPT !.val = RNeg(u.val)] ELSE NoParse :
                 u \in {ParseAtom(Tail(s))}})
    ELSE IF Head(s) = "+"
    THEN ParseAtom(Tail(s))
    ELSE ParseNumber(s)

\* acc is the term parsed so far; the operators * and / associate to the left
TermTail(acc) ==
    IF acc.ok /\ acc.rest # <<>> /\ Head(acc.rest) \in {"*", "/"}
    THEN The({IF ~u.ok \/ (Head(acc.rest) = "/" /\ u.val.n = 0)
              THEN NoParse
              ELSE The({TermTail([ok |-> TRUE, val |-> v, rest |-> u.rest]) :
                           v \in {IF Head(acc.rest) = "*"
                                  THEN RMul(acc.val, u.val)
                                  ELSE RDiv(acc.val, u.val)}}) :
                 u \in {ParseAtom(Tail(acc.rest))}})
    ELSE acc

ParseTerm(s) == The({TermTail(atom) : atom \in {ParseAtom(s)}})

ExprTail(acc) ==
    IF acc.ok /\ acc.rest # <<>> /\ Head(acc.rest) \in {"+", "-"}
    THEN The({IF ~t.ok
              THEN NoParse
              ELSE The({ExprTail([ok |-> TRUE, val |-> v, rest |-> t.rest]) :
                           v \in {IF Head(acc.rest) = "+"
                                  THEN RAdd(acc.val, t.val)
                                  ELSE RSub(acc.val, t.val)}}) :
                 t \in {ParseTerm(Tail(acc.rest))}})
    ELSE acc

ParseExpr(s) == The({ExprTail(term) : term \in {ParseTerm(s)}})

\* EvalFactor dropping the characters that are not arithmetic
EvalFactorStripped(s) ==
    The({IF e.ok /\ e.rest = <<>> THEN e ELSE NoParse :
            e \in {ParseExpr(SelectSeq(s, LAMBDA c : c \in ArithmeticChars))}})

\* the value of a Factor expression, or no value when it is rejected
EvalFactor(s) ==
    IF ~IsArithmetic(s)
    THEN NoParse
    ELSE The({IF e.ok /\ e.rest = <<>> THEN e ELSE NoParse :
                 e \in {ParseExpr(s)}})

(***************************************************************************)
(* Environment files.  A record carries only the attributes its JSON entry *)
(* gives; a Factor or Value is the sequence of characters of its text.     *)
(***************************************************************************)
EnvironmentFiles ==
    [default |->
        << [name |-> "N", Dimension |-> <<1, 1, -2, 0, 0, 0, 0>>],
           [name |-> "Pa", Dimension |-> <<1, -1, -2, 0, 0, 0, 0>>],
           [name |-> "Hz", Dimension |-> <<0, 0, -1, 0, 0, 0, 0>>] >>,
     us_customary |->
        << [name |-> "ft", Dimension |-> <<0, 1, 0, 0, 0, 0, 0>>, Symbol |-> "ft",
            Factor |-> <<"1", "/", "0", ".", "3", "0", "4", "8">>, Default |-> TRUE],
           [name |-> "inch", Dimension |-> <<0, 1, 0, 0, 0, 0, 0>>, Symbol |-> "inch",
            Factor |-> <<"1", "2", "/", "0", ".", "3", "0", "4", "8">>],
           [name |-> "N", Dimension |-> <<1, 1, -2, 0, 0, 0, 0>>] >>,
     no_dimension |->
        << [name |-> "kN", Dimension |-> <<1, 1, -2, 0, 0, 0, 0>>, Value |-> <<"1", "0", "0", "0">>],
           [name |-> "ft", Symbol |-> "ft", Factor |-> <<"1", "/", "0", ".", "3", "0", "4", "8">>] >>,
     bad_factor |->
        << [name |-> "mm", Dimension |-> <<0, 1, 0, 0, 0, 0, 0>>, Value |-> <<"0", ".", "0", "0", "1">>],
           [name |-> "ft", Dimension |-> <<0, 1, 0, 0, 0, 0, 0>>, Factor |-> <<"1", "/", "0", ".", "3", "0", "4", "8", "*", "k">>] >>,
     two_defaults |->
        << [name |-> "ft", Dimension |-> <<0, 1, 0, 0, 0, 0, 0>>, Factor |-> <<"1", "/", "0", ".", "3", "0", "4", "8">>,
            Default |-> TRUE],
           [name |-> "inch", Dimension |-> <<0, 1, 0, 0, 0, 0, 0>>, Factor |-> <<"1", "2", "/", "0", ".", "3", "0", "4", "8">>,
            Default |-> TRUE] >>]

EnvironmentNames == DOMAIN EnvironmentFiles

\* one unit definition of an environment, built from a record of its file
Unit(r) ==
    The({[name |-> r.name,
          dimensions |-> [i \in 1..7 |-> RInt(r.Dimension[i])],
          factor |-> factor,
          symbol |-> IF "Symbol" \in DOMAIN r THEN r.Symbol ELSE r.name,
          default |-> IF "Default" \in DOMAIN r THEN r.Default ELSE FALSE,
          value |-> RDiv(value, factor)] :
            factor \in {IF "Factor" \in DOMAIN r
                        THEN EvalFactor(r.Factor).val
                        ELSE ROne},
            value \in {IF "Value" \in DOMAIN r
                       THEN ParseNumber(r.Value).val
                       ELSE ROne}})

\* at most one default unit per dimension among the units with a factor
DefaultsOk(units) ==
    \A i, j \in DOMAIN units :
        (/\ i # j
         /\ units[i].default /\ units[j].default
         /\ units[i].factor # ROne /\ units[j].factor # ROne)
        => units[i].dimensions # units[j].dimensions

\* reads one record into units; a malformed record is an error
LoadUnit(record, units) ==
    IF "Dimension" \notin DOMAIN record
    THEN [error |-> "MissingDimension", units |-> units]
    ELSE IF "Factor" \in DOMAIN record /\ ~EvalFactor(record.Factor).ok
    THEN [error |-> "InvalidFactorExpression", units |-> units]
    ELSE [error |-> "", units |-> Append(units, Unit(record))]

\* reads the records in order; stops at the first malformed one
RECURSIVE LoadUnits(_, _)
LoadUnits(records, units) ==
    IF records = <<>>
    THEN [error |-> "", units |-> units]
    ELSE The({IF loaded.error # ""
              THEN loaded
              ELSE LoadUnits(Tail(records), loaded.units) :
                 loaded \in {LoadUnit(Head(records), units)}})

\* CheckDefaults accepting any number of defaults
CheckDefaultsAny(loaded) == loaded

\* the check made once every record is read
CheckDefaults(loaded) ==
    IF loaded.error = "" /\ ~DefaultsOk(loaded.units)
    THEN [error |-> "InvalidDefault", units |-> loaded.units]
    ELSE loaded

LoadEnvironment(records) ==
    The({CheckDefaults(loaded) : loaded \in {LoadUnits(records, <<>>)}})

\* Activate keeping whatever units the load had read
ActivateRead(loaded, active) == loaded.units

\* the active environment after a load: the new units as a whole, or the
\* environment that was active
Activate(loaded, active) ==
    IF loaded.error = "" THEN loaded.units ELSE active

(***************************************************************************)
(* Representation: which unit of the environment a Physical is shown in.   *)
(***************************************************************************)
\* the units whose dimensions match, in the order of the file
UnitsByDimension(env, dimensions) ==
    SelectSeq(env, LAMBDA u : u.dimensions = dimensions)

\* among units, those with the given factor
UnitsByFactor(units, factor) ==
    SelectSeq(units, LAMBDA u : u.factor = factor)

\* DefaultUnits with the Default of the file ignored
DefaultUnitsNone(units) == <<>>

\* default units: only units with a factor can be a default
DefaultUnits(units) ==
    SelectSeq(units, LAMBDA u : u.default /\ u.factor # ROne)

\* the look-ups the representation makes in the environment, in order
Lookups == <<"dimension", "factor", "default", "derived">>

Lookup(k, a, env) ==
    IF Lookups[k] = "dimension"
    THEN UnitsByDimension(env, a.dimensions)
    ELSE IF Lookups[k] = "factor"
    THEN UnitsByFactor(UnitsByDimension(env, a.dimensions), a.factor)
    ELSE IF Lookups[k] = "default"
    THEN DefaultUnits(UnitsByDimension(env, a.dimensions))
    ELSE UnitsByFactor(UnitsByDimension(env, a.dimensions), ROne)

BaseSymbols == <<"kg", "m", "s", "A", "cd", "K", "mol">>

\* the components of a dimension vector that are not zero
Components(dimensions) == {i \in 1..7 : dimensions[i].n # 0}

\* a power of one SI base unit
IsSingle(dimensions) == Cardinality(Components(dimensions)) = 1

\* the unit chosen from what the look-ups found: a defined unit when the
\* factor matches, the default unit for another factor, else the derived
\* unit, else a power of a base unit, else a compound of base units
\* ResolveFrom with the default unit taken for a quantity of factor 1 too
ResolveFromDefault(a, found) ==
    IF a.factor # ROne /\ found[2] # <<>>
    THEN [case |-> "defined", symbol |-> Head(found[2]).symbol,
          factor |-> a.factor, power |-> ROne]
    ELSE IF \E i \in DOMAIN found[1] : found[1][i].default
    THEN [case |-> "default",
          symbol |-> Head(SelectSeq(found[1], LAMBDA u : u.default)).symbol,
          factor |-> Head(SelectSeq(found[1], LAMBDA u : u.default)).factor,
          power |-> ROne]
    ELSE IF found[4] # <<>>
    THEN [case |-> "derived", symbol |-> Head(found[4]).symbol,
          factor |-> ROne, power |-> ROne]
    ELSE IF IsSingle(a.dimensions)
    THEN [case |-> "base",
          symbol |-> BaseSymbols[CHOOSE i \in Components(a.dimensions) : TRUE],
          factor |-> ROne,
          power |-> a.dimensions[CHOOSE i \in Components(a.dimensions) : TRUE]]
    ELSE [case |-> "compound", symbol |-> "", factor |-> ROne, power |-> ROne]

\* the unit taken among several that fit: the later one
Latest(units) == units[Len(units)]

\* the unit taken among several that fit: the one the file gives first
First(units) == Head(units)

\* ResolveFrom showing a power of a base unit in the base unit itself
ResolveFromFirstPower(a, found) ==
    IF a.factor # ROne /\ found[2] # <<>>
    THEN [case |-> "defined", symbol |-> First(found[2]).symbol,
          factor |-> a.factor, power |-> ROne]
    ELSE IF a.factor # ROne /\ found[3] # <<>>
    THEN [case |-> "default", symbol |-> First(found[3]).symbol,
          factor |-> First(found[3]).factor, power |-> ROne]
    ELSE IF found[4] # <<>>
    THEN [case |-> "derived", symbol |-> First(found[4]).symbol,
          factor |-> ROne, power |-> ROne]
    ELSE IF IsSingle(a.dimensions)
    THEN [case |-> "base",
          symbol |-> BaseSymbols[CHOOSE i \in Components(a.dimensions) : TRUE],
          factor |-> ROne, power |-> ROne]
    ELSE [case |-> "compound", symbol |-> "", factor |-> ROne,
          power |-> ROne]

\* ResolveFrom leaving the factor out of the number shown in a defined unit
ResolveFromUnscaled(a, found) ==
    IF a.factor # ROne /\ found[2] # <<>>
    THEN [case |-> "defined", symbol |-> First(found[2]).symbol,
          factor |-> ROne, power |-> ROne]
    ELSE IF a.factor # ROne /\ found[3] # <<>>
    THEN [case |-> "default", symbol |-> First(found[3]).symbol,
          factor |-> First(found[3]).factor, power |-> ROne]
    ELSE IF found[4] # <<>>
    THEN [case |-> "derived", symbol |-> First(found[4]).symbol,
          factor |-> ROne, power |-> ROne]
    ELSE IF IsSingle(a.dimensions)
    THEN [case |-> "base",
          symbol |-> BaseSymbols[CHOOSE i \in Components(a.dimensions) : TRUE],
          factor |-> ROne,
          power |-> a.dimensions[CHOOSE i \in Components(a.dimensions) : TRUE]]
    ELSE [case |-> "compound", symbol |-> "", factor |-> ROne,
          power |-> ROne]

ResolveFrom(a, found) ==
    IF a.factor # ROne /\ found[2] # <<>>
    THEN [case |-> "defined", symbol |-> First(found[2]).symbol,
          factor |-> a.factor, power |-> ROne]
    ELSE IF a.factor # ROne /\ found[3] # <<>>
    THEN [case |-> "default", symbol |-> First(found[3]).symbol,
          factor |-> First(found[3]).factor, power |-> ROne]
    ELSE IF found[4] # <<>>
    THEN [case |-> "derived", symbol |-> First(found[4]).symbol,
          factor |-> ROne, power |-> ROne]
    ELSE IF IsSingle(a.dimensions)
    THEN [case |-> "base",
          symbol |-> BaseSymbols[CHOOSE i \in Components(a.dimensions) : TRUE],
          factor |-> ROne,
          power |-> a.dimensions[CHOOSE i \in Components(a.dimensions) : TRUE]]
    ELSE [case |-> "compound", symbol |-> "", factor |-> ROne,
          power |-> ROne]

Resolve(a, env) ==
    ResolveFrom(a, [k \in DOMAIN Lookups |-> Lookup(k, a, env)])

(***************************************************************************)
(* Auto-prefixing.  The prefixes step at every three powers of ten from    *)
(* 10^-24 to 10^24; tier t is the prefix of 1000^t.  A magnitude is given  *)
(* as r * 1000^k, so that magnitudes beyond the integers can be shown.     *)
(***************************************************************************)
PrefixSymbols ==
    <<"y", "z", "a", "f", "p", "n", "u", "m", "",
      "k", "M", "G", "T", "P", "E", "Z", "Y">>

\* the tier of the first and of the last prefix
MinTier == -8

MaxTier == 8

Tiers == MinTier..MaxTier

PrefixOf(t) == PrefixSymbols[t - MinTier + 1]

TierOf(prefix) == CHOOSE t \in Tiers : PrefixOf(t) = prefix

Thousand == RInt(1000)

\* a Physical whose magnitude is value * 1000^scale: a float reaches
\* magnitudes beyond the integers the rationals here are made of
Large(a, scale) ==
    [kind |-> "Physical", value |-> a.value, dimensions |-> a.dimensions,
     factor |-> a.factor, precision |-> a.precision, prefixed |-> a.prefixed,
     scale |-> scale]

ScaleOf(a) == IF "scale" \in DOMAIN a THEN a.scale ELSE 0

\* the magnitude of a as r * 1000^k
Wide(a) == [r |-> a.value, k |-> ScaleOf(a)]

\* r * 1000^j >= 1, for r > 0
RECURSIVE AtLeastOne(_, _)
AtLeastOne(r, j) ==
    IF j = 0
    THEN r.n >= r.d
    ELSE IF j > 0
    THEN r.n >= r.d \/ The({AtLeastOne(x, j - 1) : x \in {RMul(r, Thousand)}})
    ELSE r.n >= r.d /\ The({AtLeastOne(x, j + 1) : x \in {RDiv(r, Thousand)}})

\* r * 1000^j
RECURSIVE Shift(_, _)
Shift(r, j) ==
    IF j = 0
    THEN r
    ELSE IF j > 0
    THEN The({Shift(x, j - 1) : x \in {RMul(r, Thousand)}})
    ELSE The({Shift(x, j + 1) : x \in {RDiv(r, Thousand)}})

\* the tiers whose prefix, raised to the power p, is not above the magnitude
\* TiersBelow taking a prefix one step of 1000 early
TiersBelowEarly(w, p) ==
    {t \in Tiers : AtLeastOne(RAbs(w.r), w.k - p * t + 1)}

\* TiersBelow taking a prefix only when the magnitude is above it
TiersBelowStrict(w, p) ==
    {t \in Tiers : ~AtLeastOne(RInv(RAbs(w.r)), p * t - w.k)}

TiersBelow(w, p) == {t \in Tiers : AtLeastOne(RAbs(w.r), w.k - p * t)}

\* the tier of the prefix a magnitude w of a unit to the power p is shown
\* with: the prefix is raised to the power with the unit
\* the tier of a magnitude below every prefix of the table: the smallest
BelowTable == MinTier

\* zero taken as a magnitude below the table
TierOfZeroBelowTable == BelowTable

\* the tier of a magnitude of exactly 0: no prefix
TierOfZero == 0

\* AutoPrefix with the prefix not raised to the power of the unit
AutoPrefixFlat(w, p) ==
    IF w.r.n = 0
    THEN TierOfZero
    ELSE IF TiersBelow(w, 1) = {}
    THEN BelowTable
    ELSE CHOOSE t \in TiersBelow(w, 1) : \A u \in TiersBelow(w, 1) : u <= t

AutoPrefix(w, p) ==
    IF w.r.n = 0
    THEN TierOfZero
    ELSE IF TiersBelow(w, p) = {}
    THEN BelowTable
    ELSE CHOOSE t \in TiersBelow(w, p) : \A u \in TiersBelow(w, p) : u <= t

\* TakesPrefix giving a prefix to compound units and units with a factor too
TakesPrefixAny(unit) ==
    unit.power.d = 1 /\ unit.power.n >= 1

\* TakesPrefix giving a prefix to units with a factor too
TakesPrefixWithFactor(unit) ==
    /\ unit.case # "compound"
    /\ unit.power.d = 1 /\ unit.power.n >= 1

\* a unit to the power p takes a prefix when p is a whole positive number
TakesPrefix(unit) ==
    /\ unit.case \in {"base", "derived"}
    /\ unit.power.d = 1 /\ unit.power.n >= 1

\* TierFor leaving aside the prefix set on a
TierForValue(a, unit) ==
    IF ~TakesPrefix(unit)
    THEN 0
    ELSE AutoPrefix(Wide(a), unit.power.n)

\* the tier a is shown in: the prefix set on a, else the automatic one
TierFor(a, unit) ==
    IF ~TakesPrefix(unit)
    THEN 0
    ELSE IF a.prefixed # ""
    THEN TierOf(a.prefixed)
    ELSE AutoPrefix(Wide(a), unit.power.n)

\* the base units of a compound representation with their exponents, in
\* the order of the dimension vector: kg·m·s⁻² is <<kg, 1>>, <<m, 1>>, <<s, -2>>
RECURSIVE CompoundFrom(_, _)
CompoundFrom(dimensions, i) ==
    IF i > 7
    THEN <<>>
    ELSE IF dimensions[i].n = 0
    THEN CompoundFrom(dimensions, i + 1)
    ELSE <<<<BaseSymbols[i], dimensions[i]>>>> \o CompoundFrom(dimensions, i + 1)

\* what follows the number: the base units of a compound, else the one
\* symbol with its power
Parts(a, unit) ==
    IF unit.case = "compound"
    THEN CompoundFrom(a.dimensions, 1)
    ELSE <<<<unit.symbol, unit.power>>>>

\* Render dividing the value by the factor
RenderDivides(a, unit) ==
    The({[kind |-> "repr", case |-> unit.case, symbol |-> unit.symbol,
          prefix |-> PrefixOf(t), power |-> unit.power,
          parts |-> Parts(a, unit),
          number |-> Shift(RDiv(a.value, unit.factor),
                           ScaleOf(a) - unit.power.n * t),
          precision |-> a.precision] : t \in {TierFor(a, unit)}})

\* a shown in the unit chosen for it
Render(a, unit) ==
    The({[kind |-> "repr", case |-> unit.case, symbol |-> unit.symbol,
          prefix |-> PrefixOf(t), power |-> unit.power,
          parts |-> Parts(a, unit),
          number |-> Shift(RMul(a.value, unit.factor),
                           ScaleOf(a) - unit.power.n * t),
          precision |-> a.precision] : t \in {TierFor(a, unit)}})

Repr(a, env) == Render(a, Resolve(a, env))

\* float(a) giving the value in SI base units
AsFloatValue(a, env) == Float(a.value)

\* float(a): the numerical portion of the representation
AsFloat(a, env) == Float(Repr(a, env).number)

(***************************************************************************)
(* The program: a session holding the active environment and one working   *)
(* value (acc), on which the operations of Physical are applied.           *)
(***************************************************************************)
VARIABLES
    environment,    \* the active environment: its units, <<>> when none
    acc,            \* the working value: None, a Physical or a number
    chain,          \* operations applied since acc was a literal
    last,           \* the call being answered: its name, operands, result
                    \* and the environment it started in; NoCall when idle
    reader,         \* a representation in progress on another thread
    writer          \* an environment load in progress on another thread

vars == <<environment, acc, chain, last, reader, writer>>

\* the SI base units instantiated on import (those the model computes with)
BaseUnits ==
    {Physical(ROne, Dimensions(0, 1, 0, 0, 0, 0, 0), ROne, DefaultPrecision, ""),
     Physical(ROne, Dimensions(0, 0, 1, 0, 0, 0, 0), ROne, DefaultPrecision, "")}

\* the units of an environment instantiated as Physicals
EnvironmentUnits(env) ==
    {Physical(env[i].value, env[i].dimensions, env[i].factor,
              DefaultPrecision, "") : i \in DOMAIN env}

LiteralNumbers == {RInt(-2), RInt(0), RInt(4)}

\* the second operands a calculation is fed with
Operands ==
    {Float(RInt(0)), Float(RInt(-2))}
    \cup {Mul(Float(RInt(4)), u) : u \in BaseUnits}

Exponents == {Float(RInt(-1)), Float(RInt(0)), Float(RInt(2)), Float(Rat(1, 2))}

Roots == {2}

Precisions == {2}

Prefixes == {"m"}

UnitNames ==
    {EnvironmentFiles[f][i].name :
        f \in {"default", "us_customary"}, i \in 1..3}
    \cup {"furlong"}

IsValue(v) == IsPhysical(v) \/ IsFloat(v)

InBounds(v) ==
    /\ IsValue(v) =>
        AbsInt(v.value.n) <= MaxNum /\ v.value.d <= MaxNum
    /\ IsPhysical(v) =>
        /\ v.factor.n <= MaxFactor /\ v.factor.d <= MaxFactor
        /\ \A i \in 1..7 :
              AbsInt(v.dimensions[i].n) <= MaxExp * v.dimensions[i].d

\* the operand pairs of a binary operation on acc
Pairs ==
    {p \in ({<<acc, b>> : b \in Operands} \cup {<<b, acc>> : b \in Operands}
            \cup {<<acc, acc>>}) :
        IsPhysical(p[1]) \/ IsPhysical(p[2])}

NoCall == [op |-> "", a |-> None, b |-> None, r |-> None, env |-> <<>>]

Call(op, a, b, r) == [op |-> op, a |-> a, b |-> b, r |-> r, env |-> environment]

Str(s) == [kind |-> "str", str |-> s]

\* a new value within the bounds becomes the working value
Kept(r) == IsValue(r) /\ InBounds(r) /\ chain < MaxChain

\* an operation is called and returns r
Step(op, a, b, r) ==
    /\ last = NoCall
    /\ acc' = IF Kept(r) THEN r ELSE acc
    /\ chain' = IF Kept(r) THEN chain + 1 ELSE chain
    /\ last' = Call(op, a, b, r)
    /\ UNCHANGED <<environment, reader, writer>>

\* no representation in progress
NoReader == [pc |-> "idle", catalog |-> <<>>, seen |-> <<>>, found |-> <<>>]

\* no load in progress
NoWriter == [pc |-> "idle", name |-> "", records |-> <<>>, units |-> <<>>]

Init ==
    /\ environment = <<>>
    /\ acc = None
    /\ chain = 0
    /\ last = NoCall
    /\ reader = NoReader
    /\ writer = NoWriter

OpLiteral ==
    \E x \in LiteralNumbers, u \in BaseUnits \cup EnvironmentUnits(environment) :
        /\ last = NoCall
        /\ InBounds(Mul(Float(x), u))
        /\ acc' = Mul(Float(x), u)
        /\ chain' = 0
        /\ last' = Call("literal", Float(x), u, Mul(Float(x), u))
        /\ UNCHANGED <<environment, reader, writer>>

OpAdd == \E p \in Pairs : IsValue(acc) /\ Step("add", p[1], p[2], Add(p[1], p[2]))

OpSub == \E p \in Pairs : IsValue(acc) /\ Step("sub", p[1], p[2], Sub(p[1], p[2]))

OpMul == \E p \in Pairs : IsValue(acc) /\ Step("mul", p[1], p[2], Mul(p[1], p[2]))

OpTrueDiv ==
    \E p \in Pairs : IsValue(acc) /\ Step("truediv", p[1], p[2], TrueDiv(p[1], p[2]))

OpPow ==
    \E n \in Exponents \cup {b \in Operands : IsPhysical(b)} :
        /\ IsPhysical(acc)
        /\ IsFloat(n) => /\ HasExactPower(acc.value, n.value)
                         /\ HasExactPower(acc.factor, n.value)
        /\ Step("pow", acc, n, Pow(acc, n))

OpSqrt ==
    \E n \in Roots :
        /\ IsPhysical(acc)
        /\ HasExactPower(acc.value, Rat(1, n))
        /\ HasExactPower(acc.factor, Rat(1, n))
        /\ Step("sqrt", acc, Float(RInt(n)), Sqrt(acc, n))

OpNeg == IsPhysical(acc) /\ Step("neg", acc, None, Neg(acc))

OpAbs == IsPhysical(acc) /\ Step("abs", acc, None, Abs(acc))

OpRound ==
    \E n \in Precisions :
        IsPhysical(acc) /\ Step("round", acc, Float(RInt(n)), Round(acc, n))

OpPrefix ==
    \E p \in Prefixes :
        IsPhysical(acc) /\ Step("prefix", acc, Str(p), Prefix(acc, p))

OpSplit == IsPhysical(acc) /\ Step("split", acc, None, Split(acc))

OpTo ==
    \E unit_name \in UnitNames :
        /\ IsPhysical(acc)
        /\ Step("to", acc, Str(unit_name), To(acc, unit_name, environment))

OpRepr == IsPhysical(acc) /\ Step("repr", acc, None, Repr(acc, environment))

\* OpEnvironment putting the working value in the default unit of the
\* environment it loads
OpFloat == IsPhysical(acc) /\ Step("float", acc, None, AsFloat(acc, environment))

OpEnvironmentRescales ==
    /\ last = NoCall
    /\ \E env_name \in EnvironmentNames :
        \E loaded \in {LoadEnvironment(EnvironmentFiles[env_name])} :
            /\ environment' = Activate(loaded, environment)
            /\ acc' = IF IsPhysical(acc)
                      THEN [acc EXCEPT !.factor =
                               Resolve(acc, Activate(loaded, environment)).factor]
                      ELSE acc
            /\ last' = Call("environment", Str(env_name), None,
                            IF loaded.error = "" THEN None
                            ELSE Raise(loaded.error))
            /\ UNCHANGED <<chain, reader, writer>>

\* OpEnvironment keeping the units that were active beside those loaded
OpEnvironmentAdds ==
    /\ last = NoCall
    /\ \E env_name \in EnvironmentNames :
        \E loaded \in {LoadEnvironment(EnvironmentFiles[env_name])} :
            /\ environment' = IF loaded.error = ""
                               THEN loaded.units
                                    \o SelectSeq(environment,
                                          LAMBDA u : \A i \in DOMAIN loaded.units :
                                                        loaded.units[i] # u)
                               ELSE environment
            /\ last' = Call("environment", Str(env_name), None,
                            IF loaded.error = "" THEN None
                            ELSE Raise(loaded.error))
            /\ UNCHANGED <<acc, chain, reader, writer>>

OpEnvironment ==
    /\ last = NoCall
    /\ \E env_name \in EnvironmentNames :
        \E loaded \in {LoadEnvironment(EnvironmentFiles[env_name])} :
            /\ environment' = Activate(loaded, environment)
            /\ last' = Call("environment", Str(env_name), None,
                            IF loaded.error = "" THEN None
                            ELSE Raise(loaded.error))
            /\ UNCHANGED <<acc, chain, reader, writer>>

\* the answer has been read; the session is ready for the next call
Return ==
    /\ last # NoCall
    /\ last' = NoCall
    /\ UNCHANGED <<environment, acc, chain, reader, writer>>

Next ==
    \/ OpLiteral
    \/ OpAdd
    \/ OpSub
    \/ OpMul
    \/ OpTrueDiv
    \/ OpPow
    \/ OpSqrt
    \/ OpNeg
    \/ OpAbs
    \/ OpRound
    \/ OpPrefix
    \/ OpSplit
    \/ OpTo
    \/ OpRepr
    \/ OpFloat
    \/ OpEnvironment
    \/ Return

Spec == Init /\ [][Next]_vars

(***************************************************************************)
(* Two threads: one shows the working value while the other loads an       *)
(* environment record by record.  The load builds its units aside and      *)
(* makes them the active environment in one assignment; a representation   *)
(* takes the active environment once and makes all its look-ups in it.     *)
(***************************************************************************)
\* the quantities shown while an environment is loading
ShownQuantities ==
    {Physical(RInt(4), Dimensions(0, 1, 0, 0, 0, 0, 0), ROne, DefaultPrecision, ""),
     Physical(RInt(4), Dimensions(1, 1, -2, 0, 0, 0, 0), ROne, DefaultPrecision, ""),
     Physical(RInt(4), Dimensions(0, 0, -1, 0, 0, 0, 0), ROne, DefaultPrecision, "")}

InitConc ==
    /\ environment = <<>>
    /\ acc \in ShownQuantities
    /\ chain = 0
    /\ last = NoCall
    /\ reader = NoReader
    /\ writer = NoWriter

\* Catalog reading the active environment anew at every look-up
CatalogActive(r, active) == active

\* the environment a look-up of the representation r reads
Catalog(r, active) == r.catalog

ReprBegin ==
    /\ reader.pc = "idle"
    /\ reader' = [pc |-> "lookup", catalog |-> environment, seen |-> <<>>,
                  found |-> <<>>]
    /\ UNCHANGED <<environment, acc, chain, last, writer>>

ReprLookup ==
    /\ reader.pc = "lookup"
    /\ Len(reader.found) < Len(Lookups)
    /\ reader' = [reader EXCEPT
                    !.seen = Append(@, Catalog(reader, environment)),
                    !.found = Append(@, Lookup(Len(reader.found) + 1, acc,
                                               Catalog(reader, environment)))]
    /\ UNCHANGED <<environment, acc, chain, last, writer>>

ReprEnd ==
    /\ reader.pc = "lookup"
    /\ Len(reader.found) = Len(Lookups)
    /\ last' = [op |-> "repr", a |-> acc, b |-> None,
                r |-> Render(acc, ResolveFrom(acc, reader.found)),
                env |-> reader.catalog]
    /\ reader' = NoReader
    /\ UNCHANGED <<environment, acc, chain, writer>>

LoadBegin ==
    /\ writer.pc = "idle"
    /\ \E env_name \in EnvironmentNames :
          writer' = [pc |-> "loading", name |-> env_name,
                     records |-> EnvironmentFiles[env_name], units |-> <<>>]
    /\ UNCHANGED <<environment, acc, chain, last, reader>>

\* the load ends: its units become the active environment, or it failed
Finish(loaded) ==
    /\ environment' = Activate(loaded, environment)
    /\ writer' = NoWriter

LoadRecord ==
    /\ writer.pc = "loading"
    /\ writer.records # <<>>
    /\ \E loaded \in {LoadUnit(Head(writer.records), writer.units)} :
          IF loaded.error # ""
          THEN Finish(loaded)
          ELSE /\ writer' = [writer EXCEPT !.records = Tail(@),
                                           !.units = loaded.units]
               /\ UNCHANGED environment
    /\ UNCHANGED <<acc, chain, last, reader>>

LoadEnd ==
    /\ writer.pc = "loading"
    /\ writer.records = <<>>
    /\ Finish(CheckDefaults([error |-> "", units |-> writer.units]))
    /\ UNCHANGED <<acc, chain, last, reader>>

NextConc ==
    \/ ReprBegin
    \/ ReprLookup
    \/ ReprEnd
    \/ LoadBegin
    \/ LoadRecord
    \/ LoadEnd

SpecConc == InitConc /\ [][NextConc]_vars

(***************************************************************************)
(* Representation on its own: a quantity of any magnitude is shown, and    *)
(* coerced to a float, under a loaded environment.                         *)
(***************************************************************************)
\* the environment of the lb scenario; the Factor of the documentation,
\* "1/0.45359237/9.80665", is cut to the digits whose exact fraction the
\* integers of the checker hold
DisplayFiles ==
    [default |-> EnvironmentFiles.default,
     lb |->
        << [name |-> "lb", Dimension |-> <<1, 1, -2, 0, 0, 0, 0>>,
            Factor |-> <<"1", "/", "0", ".", "4", "5", "3", "6", "/", "9", ".", "8">>,
            Default |-> TRUE] >>,
     lb_N |->
        << [name |-> "lb", Dimension |-> <<1, 1, -2, 0, 0, 0, 0>>,
            Factor |-> <<"1", "/", "0", ".", "4", "5", "3", "6", "/", "9", ".", "8">>,
            Default |-> TRUE],
           [name |-> "N", Dimension |-> <<1, 1, -2, 0, 0, 0, 0>>] >>,
     ties |->
        << [name |-> "lb", Dimension |-> <<1, 1, -2, 0, 0, 0, 0>>,
            Factor |-> <<"1", "/", "0", ".", "4", "5", "3", "6", "/", "9", ".", "8">>,
            Default |-> TRUE],
           [name |-> "lbf", Dimension |-> <<1, 1, -2, 0, 0, 0, 0>>,
            Factor |-> <<"1", "/", "0", ".", "4", "5", "3", "6", "/", "9", ".", "8">>],
           [name |-> "N", Dimension |-> <<1, 1, -2, 0, 0, 0, 0>>],
           [name |-> "newton", Dimension |-> <<1, 1, -2, 0, 0, 0, 0>>] >>]

Loaded(f) == LoadEnvironment(DisplayFiles[f]).units

DisplayEnvironments == {<<>>} \cup {Loaded(f) : f \in DOMAIN DisplayFiles}

\* a force whose factor no unit has: lb * ft / m
FootPounds ==
    {TrueDiv(Mul(lb, ft), m) :
        lb \in EnvironmentUnits(Loaded("lb")),
        ft \in {u \in EnvironmentUnits(
                        LoadEnvironment(EnvironmentFiles.us_customary).units) :
                    u.factor = Rat(1250, 381)},
        m \in {Physical(ROne, Dimensions(0, 1, 0, 0, 0, 0, 0), ROne,
                        DefaultPrecision, "")}}

\* the units quantities are shown in: m, m2, the units of the environments
\* and lb * ft / m
DisplayUnits ==
    {Physical(ROne, Dimensions(0, p, 0, 0, 0, 0, 0), ROne, DefaultPrecision, "") :
        p \in {1, 2}}
    \cup UNION {EnvironmentUnits(env) : env \in DisplayEnvironments}
    \cup FootPounds

\* magnitudes <<r, k>>, standing for r * 1000^k
DisplayValues ==
    {<<RInt(0), 0>>, <<Rat(1, 2), 0>>, <<RInt(4), 0>>, <<RInt(1000), 0>>,
     <<Rat(999999, 1000), 0>>, <<RInt(2500), 0>>, <<RInt(-2500), 0>>,
     <<RInt(5), 1>>, <<RInt(500), 1>>, <<RInt(500000), 0>>,
     <<RInt(35), 2>>, <<RInt(35000000), 0>>, <<Rat(354, 1000), 0>>,
     <<RInt(4), 9>>, <<RInt(4), -9>>}

\* the largest whole magnitude the model squares, or shows in a unit with a
\* factor
MaxSquared == 2500

IsSmall(a) ==
    ScaleOf(a) \in 0..1 /\ a.value.d = 1 /\ AbsInt(a.value.n) <= MaxSquared

\* the largest numerator of a magnitude the model shows in thousandths
MaxMilli == 1000

\* the number shown with the prefix is within the integers of the checker
Fits(a, prefix) ==
    IF prefix = "k"
    THEN ScaleOf(a) \in 0..2
    ELSE ScaleOf(a) = 0 /\ AbsInt(a.value.n) <= MaxMilli

IsLength(dimensions) == IsSingle(dimensions) /\ dimensions[2].n >= 1

DisplayQuantities ==
    {q \in {Large(Physical(v[1], u.dimensions, u.factor, DefaultPrecision, ""),
                  v[2]) : v \in DisplayValues, u \in DisplayUnits} :
        /\ q.factor # ROne => (IsSmall(q) /\ ScaleOf(q) = 0)
        /\ ScaleOf(q) \notin 0..2 => IsLength(q.dimensions)}

DisplayPrefixes == {"k", "m"}

InitDisplay ==
    /\ environment \in DisplayEnvironments
    /\ acc \in DisplayQuantities
    /\ chain = 0
    /\ last = NoCall
    /\ reader = NoReader
    /\ writer = NoWriter

\* a call that leaves the quantity as it is
DisplayStep(op, r) ==
    /\ last = NoCall
    /\ last' = Call(op, acc, None, r)
    /\ UNCHANGED <<environment, acc, chain, reader, writer>>

\* a call whose result becomes the quantity shown
DisplayKeep(op, b, r) ==
    /\ last = NoCall
    /\ chain = 0
    /\ acc' = r
    /\ chain' = 1
    /\ last' = Call(op, acc, b, r)
    /\ UNCHANGED <<environment, reader, writer>>

DisplayRepr == DisplayStep("repr", Repr(acc, environment))

DisplayFloat == DisplayStep("float", AsFloat(acc, environment))

DisplayPrefix ==
    \E prefix \in DisplayPrefixes :
        /\ Fits(acc, prefix)
        /\ DisplayKeep("prefix", Str(prefix),
                       Large(Prefix(acc, prefix), ScaleOf(acc)))

\* a length squared
DisplayPow ==
    /\ acc.dimensions = Dimensions(0, 1, 0, 0, 0, 0, 0)
    /\ acc.factor = ROne
    /\ IsSmall(acc)
    /\ DisplayKeep("pow", Float(RInt(2)),
                   Large(Pow(acc, Float(RInt(2))), 2 * ScaleOf(acc)))

NextDisplay ==
    \/ DisplayRepr
    \/ DisplayFloat
    \/ DisplayPrefix
    \/ DisplayPow
    \/ Return

SpecDisplay == InitDisplay /\ [][NextDisplay]_vars

(***************************************************************************)
(* Factor expressions on their own: an environment file with one unit      *)
(* whose Factor is a given text is loaded.                                 *)
(***************************************************************************)
\* the longest Factor text tried character by character
MaxText == 3

FactorChars == {"0", "1", "3", ".", "/", "-", "(", ")", "k", "_"}

RECURSIVE Texts(_)
Texts(n) ==
    IF n = 0
    THEN {<<>>}
    ELSE Texts(n - 1)
         \cup {Append(t, c) : t \in {u \in Texts(n - 1) : Len(u) = n - 1},
                             c \in FactorChars}

FactorTexts ==
    (Texts(MaxText) \ {<<>>})
    \cup {<<"1", "/", "0", ".", "3", "0", "4", "8">>,
          <<"(", "1", "3", "-", "1", ")", "/", "0", ".", "3">>,
          <<"1", "/", "0", ".", "3", "0", "4", "8", "*", "k">>}

Text(s) == [kind |-> "text", text |-> s]

\* the file: one unit of length whose Factor is the text
FactorFile(s) ==
    << [name |-> "u", Dimension |-> <<0, 1, 0, 0, 0, 0, 0>>, Factor |-> s] >>

InitFactor ==
    /\ environment = <<>>
    /\ acc \in {Text(s) : s \in FactorTexts}
    /\ chain = 0
    /\ last = NoCall
    /\ reader = NoReader
    /\ writer = NoWriter

\* the file is loaded: its units become the environment unless it is
\* rejected
FactorLoad ==
    /\ last = NoCall
    /\ chain = 0
    /\ \E loaded \in {LoadEnvironment(FactorFile(acc.text))} :
          /\ environment' = Activate(loaded, environment)
          /\ last' = Call("environment", acc, None,
                          IF loaded.error = ""
                          THEN None
                          ELSE Raise(loaded.error))
    /\ chain' = 1
    /\ UNCHANGED <<acc, reader, writer>>

NextFactor ==
    \/ FactorLoad
    \/ Return

SpecFactor == InitFactor /\ [][NextFactor]_vars


(***************************************************************************)
(* Properties.  last holds the operands of the call just answered, its     *)
(* result and the environment the call started in.                         *)
(***************************************************************************)
\* C1: when two quantities are multiplied and their dimensions sum to zero,
\* or divided and their dimensions are equal, the result is a bare number,
\* the product (the quotient) of the two magnitudes, and not a Physical
CancelledProductIsNumber ==
    /\ (/\ last.op = "mul"
        /\ IsPhysical(last.a) /\ IsPhysical(last.b)
        /\ IsZero(VecAdd(last.a.dimensions, last.b.dimensions)))
       => last.r = Float(RMul(last.a.value, last.b.value))
    /\ (/\ last.op = "truediv"
        /\ IsPhysical(last.a) /\ IsPhysical(last.b)
        /\ last.a.dimensions = last.b.dimensions
        /\ last.b.value.n # 0)
       => last.r = Float(RDiv(last.a.value, last.b.value))

\* a quantity in feet divided by a quantity in metres gave a number
CancelledQuotientSeen ==
    /\ last.op = "truediv"
    /\ IsPhysical(last.a) /\ IsPhysical(last.b)
    /\ last.a.factor # last.b.factor
    /\ IsFloat(last.r)

\* C2: no Physical has a dimension vector of seven zeros: not the working
\* value, not an operand, not a result, not the Physical half of a split
NoDimensionlessPhysical ==
    \A v \in {acc, last.a, last.b, last.r}
             \cup (IF last.r.kind = "tuple" THEN {last.r.second} ELSE {}) :
        IsPhysical(v) => ~IsZero(v.dimensions)

\* a product of two quantities reached the zero vector and came back a number
DimensionlessProductSeen ==
    /\ last.op = "mul"
    /\ IsPhysical(last.a) /\ IsPhysical(last.b)
    /\ IsFloat(last.r)

\* C3: adding or subtracting two quantities raises DimensionMismatch when
\* their dimensions differ and returns a quantity when they are equal,
\* whatever their factors, precisions and prefixes
AddSubChecksDimensionsOnly ==
    (/\ last.op \in {"add", "sub"}
     /\ IsPhysical(last.a) /\ IsPhysical(last.b))
    => IF last.a.dimensions = last.b.dimensions
       THEN IsPhysical(last.r)
       ELSE last.r = Raise("DimensionMismatch")

\* two quantities of equal dimensions and different factors were subtracted
SubAcrossUnitsSeen ==
    /\ last.op = "sub"
    /\ IsPhysical(last.a) /\ IsPhysical(last.b)
    /\ last.a.dimensions = last.b.dimensions
    /\ last.a.factor # last.b.factor
    /\ IsPhysical(last.r)

PowZeroIsOne ==
    (last.op = "pow" /\ last.b = Float(RZero)) => last.r = Float(ROne)

\* a quantity of magnitude 0 was raised to the power 0
PowZeroOfZeroSeen ==
    /\ last.op = "pow"
    /\ last.b = Float(RZero)
    /\ last.a.value = RZero
    /\ last.r = Float(ROne)

\* C6: raising a quantity to a power that is itself a Physical raises
\* InvalidOperand and returns no value
PowOfPhysicalIsInvalid ==
    (last.op = "pow" /\ IsPhysical(last.b)) => last.r = Raise("InvalidOperand")

\* a quantity was raised to a Physical power
PowOfPhysicalSeen ==
    /\ last.op = "pow"
    /\ IsPhysical(last.a) /\ IsPhysical(last.b)
    /\ IsError(last.r)

\* C7: a step that loads an environment, whether the load succeeds or
\* fails, or that shows a quantity, leaves every field of the working value
\* as it was
LoadAndReprKeepQuantity ==
    [][last'.op \in {"environment", "repr"} => acc' = acc]_vars

\* an environment was loaded under which the unchanged working value is
\* shown differently than before
ReprChangedByLoadSeen ==
    /\ last.op = "environment"
    /\ last.r = None
    /\ IsPhysical(acc)
    /\ Repr(acc, last.env) # Repr(acc, environment)

\* C8: after a load that failed (a record without Dimension, an invalid
\* Factor expression, two defaults for a dimension) the active environment
\* is the one that was active before, entry for entry
FailedLoadKeepsEnvironment ==
    (last.op = "environment" /\ IsError(last.r)) => environment = last.env

\* a load failed on its second record while an environment was active
FailedLoadSeen ==
    /\ last.op = "environment"
    /\ last.r = Raise("InvalidFactorExpression")
    /\ environment # <<>>

\* C9: all the look-ups of one representation read one and the same
\* environment, which is either no environment or all the units of a file
\* that loads, and the representation is the one of that environment
LookupsReadOneEnvironment ==
    /\ \A i \in DOMAIN reader.seen :
          /\ reader.seen[i] = reader.seen[1]
          /\ \/ reader.seen[i] = <<>>
             \/ \E f \in EnvironmentNames :
                   /\ LoadEnvironment(EnvironmentFiles[f]).error = ""
                   /\ reader.seen[i] = LoadEnvironment(EnvironmentFiles[f]).units
    /\ last.op = "repr" => last.r = Repr(last.a, last.env)

\* a representation had made all its look-ups when the active environment
\* was no longer the one it started with
ReloadDuringReprSeen ==
    /\ reader.pc = "lookup"
    /\ Len(reader.seen) = Len(Lookups)
    /\ environment # reader.catalog

\* C10: .to(unit_name) raises UnknownUnit when the active environment has no
\* unit of that name and DimensionMismatch when it has one of other
\* dimensions; either way nothing is returned and the environment and the
\* quantity are as before
ToFailure ==
    last.op = "to"
    => /\ Named(last.env, last.b.str) = {} => last.r = Raise("UnknownUnit")
       /\ (/\ Named(last.env, last.b.str) # {}
           /\ NamedUnit(last.env, last.b.str).dimensions # last.a.dimensions)
          => last.r = Raise("DimensionMismatch")
       /\ IsError(last.r) => environment = last.env /\ acc = last.a

\* a quantity was asked in a unit of the environment of other dimensions
ToOtherDimensionsSeen ==
    /\ last.op = "to"
    /\ Named(last.env, last.b.str) # {}
    /\ last.r = Raise("DimensionMismatch")
    /\ acc = last.a

\* C11: a successful .to(unit_name) returns a quantity with the factor of
\* the named unit and the value, dimensions and precision of the quantity
\* it was called on: the stored value is not rescaled
ToKeepsValue ==
    (last.op = "to" /\ IsPhysical(last.r))
    => /\ last.r.factor = NamedUnit(last.env, last.b.str).factor
       /\ last.r.value = last.a.value
       /\ last.r.dimensions = last.a.dimensions
       /\ last.r.precision = last.a.precision

\* a quantity was put in a unit with another factor than its own
ToOtherFactorSeen ==
    /\ last.op = "to"
    /\ IsPhysical(last.r)
    /\ last.r.factor # last.a.factor
    /\ last.r.factor # ROne

\* C12: a quantity shown in a defined unit (a unit of the environment with
\* its dimensions and its factor, the factor not 1) is shown as its stored
\* value multiplied by the factor
DefinedUnitShowsValueTimesFactor ==
    (last.op = "repr" /\ last.r.case = "defined")
    => /\ last.r.number = RMul(last.a.value, last.a.factor)
       /\ \E i \in DOMAIN last.env :
             /\ last.env[i].dimensions = last.a.dimensions
             /\ last.env[i].factor = last.a.factor
             /\ last.env[i].symbol = last.r.symbol

\* a quantity of non-zero value was shown in a defined unit
DefinedUnitShownSeen ==
    /\ last.op = "repr"
    /\ last.r.case = "defined"
    /\ last.a.value.n # 0
    /\ last.r.number # last.a.value

\* C13: float(a) is the number shown in the representation of a: the value
\* multiplied by the factor of the unit shown and divided by the prefix
\* shown, the prefix set on a when one is set, and not the value in SI base
\* units; 35e6 Pa under the default environment gives 35.0
FloatIsNumberShown ==
    last.op = "float"
    => \E shown \in {Repr(last.a, last.env)},
          unit \in {Resolve(last.a, last.env)} :
          /\ last.r = Float(shown.number)
          /\ Shift(last.r.value,
                   shown.power.n * TierOf(shown.prefix) - ScaleOf(last.a))
                = RMul(last.a.value, unit.factor)
          /\ (TakesPrefix(unit) /\ last.a.prefixed # "")
                => shown.prefix = last.a.prefixed
          /\ (/\ last.a.value = RInt(35) /\ ScaleOf(last.a) = 2
              /\ last.a.dimensions = Dimensions(1, -1, -2, 0, 0, 0, 0)
              /\ last.a.factor = ROne /\ last.a.prefixed = ""
              /\ last.env = Loaded("default"))
                => last.r = Float(RInt(35))

\* 35e6 Pa was coerced to a float under the default environment
FloatOfPrefixedSeen ==
    /\ last.op = "float"
    /\ last.a.value = RInt(35) /\ ScaleOf(last.a) = 2
    /\ last.a.dimensions = Dimensions(1, -1, -2, 0, 0, 0, 0)
    /\ last.a.factor = ROne /\ last.a.prefixed = ""
    /\ last.env = Loaded("default")
    /\ last.r = Float(RInt(35))
    /\ Repr(last.a, last.env).prefix = "M"

\* C14: a.split() returns the value of a and a Physical with the
\* dimensions, factor and precision of a; multiplying the two together
\* gives a quantity with the value and the dimensions of a
SplitReconstitutes ==
    last.op = "split"
    => /\ IsFloat(last.r.first)
       /\ IsPhysical(last.r.second)
       /\ last.r.second.dimensions = last.a.dimensions
       /\ last.r.second.factor = last.a.factor
       /\ last.r.second.precision = last.a.precision
       /\ \E product \in {Mul(last.r.first, last.r.second)} :
             /\ IsPhysical(product)
             /\ product.value = last.a.value
             /\ product.dimensions = last.a.dimensions

\* a quantity in a unit with a factor was split
SplitOfDefinedUnitSeen ==
    /\ last.op = "split"
    /\ last.a.factor # ROne
    /\ last.a.value \notin {RZero, ROne}
    /\ last.r.second.value = ROne

\* C15: for quantities a and b, b not zero, (a / b) * b has the value and
\* the dimensions of a, also when a and b have the same dimensions and a / b
\* is a number
DivThenMulGivesBack ==
    (/\ last.op = "truediv"
     /\ IsPhysical(last.a) /\ IsPhysical(last.b)
     /\ last.b.value.n # 0)
    => /\ IsValue(last.r)
       /\ \E back \in {Mul(last.r, last.b)} :
             /\ IsPhysical(back)
             /\ back.value = last.a.value
             /\ back.dimensions = last.a.dimensions

\* a quantity was divided by another one of the same dimensions, in a unit
\* with a factor, and the quotient is a number
DivToNumberSeen ==
    /\ last.op = "truediv"
    /\ IsPhysical(last.a) /\ IsPhysical(last.b)
    /\ IsFloat(last.r)
    /\ last.b.factor # ROne
    /\ last.a.value # last.b.value

\* the area 500000 m * 500000 m = 2.5e11 m2
IsSquareOfHalfMillion(a) ==
    /\ a.value = RInt(250000) /\ ScaleOf(a) = 2
    /\ a.dimensions = Dimensions(0, 2, 0, 0, 0, 0, 0)
    /\ a.factor = ROne /\ a.prefixed = ""

\* C16: (500000 m)**2 is shown as 250000.000 km2, not 0.250 Mm2; a unit to
\* the power p takes the largest prefix whose p-th power is not above the
\* magnitude, so the number shown lies between 1 and 1000^p
PrefixRaisedToPower ==
    (last.op = "repr" /\ last.a.prefixed = "" /\ last.a.value.n # 0
     /\ TakesPrefix(Resolve(last.a, last.env)))
    => /\ IsSquareOfHalfMillion(last.a)
          => /\ last.r.prefix = "k" /\ last.r.symbol = "m"
             /\ last.r.power = RInt(2)
             /\ last.r.number = RInt(250000)
       /\ Shift(last.r.number,
                last.r.power.n * TierOf(last.r.prefix) - ScaleOf(last.a))
             = last.a.value
       /\ AtLeastOne(RAbs(last.r.number), 0) \/ last.r.prefix = PrefixOf(MinTier)
       /\ ~AtLeastOne(RAbs(last.r.number), -last.r.power.n)
             \/ last.r.prefix = PrefixOf(MaxTier)

\* 500000 m was squared and the square shown
SquareOfHalfMillionShown ==
    /\ last.op = "repr"
    /\ chain = 1
    /\ IsSquareOfHalfMillion(last.a)
    /\ last.r.prefix = "k"

\* the area 500000 m2
IsHalfMillionSquareMetres(a) ==
    /\ <<a.value, ScaleOf(a)>> \in {<<RInt(500000), 0>>, <<RInt(500), 1>>}
    /\ a.dimensions = Dimensions(0, 2, 0, 0, 0, 0, 0)
    /\ a.factor = ROne /\ a.prefixed = ""

\* C17, as stated: 500000 m2 is shown as 500.000 km2
HalfMillionSquareMetresInKm2 ==
    (last.op = "repr" /\ IsHalfMillionSquareMetres(last.a))
    => /\ last.r.prefix = "k"
       /\ last.r.number = RInt(500)

\* C17, amended: 500000 m2 is below the 1000000 m2 of one km2 and is shown
\* without a prefix, as 500000.000 m2, not as 0.500 Mm2
HalfMillionSquareMetresUnprefixed ==
    (last.op = "repr" /\ IsHalfMillionSquareMetres(last.a))
    => /\ last.r.prefix = ""
       /\ last.r.symbol = "m" /\ last.r.power = RInt(2)
       /\ last.r.number = RInt(500000)

\* 500000 m2 was shown
HalfMillionSquareMetresShown ==
    /\ last.op = "repr"
    /\ IsHalfMillionSquareMetres(last.a)
    /\ ScaleOf(last.a) = 1
    /\ last.r.case = "base"

\* a force shown under an environment that defines lb as a default unit
IsForceUnderLb(call, files) ==
    /\ call.op = "repr"
    /\ call.env \in {Loaded(f) : f \in files}
    /\ call.a.dimensions = Dimensions(1, 1, -2, 0, 0, 0, 0)

DefaultsLike(env, i) ==
    {j \in DOMAIN env :
        /\ env[j].default
        /\ env[j].factor # ROne
        /\ env[j].dimensions = env[i].dimensions}

\* C20: the active environment has, for each dimension vector, at most one
\* unit that is marked default and has a factor other than 1; a file that
\* marks two or more such units of one dimension vector is rejected when it
\* is loaded and the active environment stays
OneDefaultPerDimension ==
    /\ \A i \in DOMAIN environment :
          Cardinality(DefaultsLike(environment, i)) <= 1
    /\ last.op = "environment"
          => \E read \in {LoadUnits(EnvironmentFiles[last.a.str], <<>>)} :
                (/\ read.error = ""
                 /\ \E i \in DOMAIN read.units :
                       Cardinality(DefaultsLike(read.units, i)) >= 2)
                => /\ last.r = Raise("InvalidDefault")
                   /\ environment = last.env

\* a file marking two defaults for lengths was rejected while an
\* environment with one default for lengths was active
TwoDefaultsRejectedSeen ==
    /\ last.op = "environment"
    /\ last.a = Str("two_defaults")
    /\ last.r = Raise("InvalidDefault")
    /\ \E i \in DOMAIN environment :
          Cardinality(DefaultsLike(environment, i)) = 1

\* a representation under an environment none of whose units has the
\* dimensions of the quantity
IsUnmatched(call) ==
    /\ call.op = "repr"
    /\ UnitsByDimension(call.env, call.a.dimensions) = <<>>

\* the quantity shown in SI base units: each with its exponent, negative
\* ones included, no prefix, the number being the value
IsShownInBaseUnits(call) ==
    /\ call.r.case = "compound"
    /\ call.r.prefix = ""
    /\ call.r.parts = CompoundFrom(call.a.dimensions, 1)
    /\ \A i \in DOMAIN call.r.parts :
          /\ call.r.parts[i][1] \in {BaseSymbols[j] : j \in 1..7}
          /\ \A j \in DOMAIN call.env :
                call.r.parts[i][1] # call.env[j].symbol
    /\ call.r.number = Shift(call.a.value, ScaleOf(call.a))

IsPlainLength(a) ==
    /\ IsLength(a.dimensions)
    /\ a.dimensions[2].d = 1
    /\ a.factor = ROne
    /\ a.prefixed = ""

ExactUnits(call) ==
    {i \in DOMAIN call.env :
        /\ call.env[i].dimensions = call.a.dimensions
        /\ call.env[i].factor = call.a.factor}

\* C23, as stated: when a unit of the environment has the dimensions and
\* exactly the factor of the quantity, the quantity is shown with the symbol
\* of that unit, without a prefix, and the number is the value divided by
\* the factor
ExactUnitDivides ==
    (last.op = "repr" /\ ExactUnits(last) # {})
    => /\ \E i \in ExactUnits(last) : last.r.symbol = last.env[i].symbol
       /\ last.r.prefix = ""
       /\ last.r.number = RDiv(last.a.value, last.a.factor)

\* C23, amended: when a unit of the environment has the dimensions and
\* exactly the factor of the quantity, and the factor is not 1, the quantity
\* is shown with the symbol of that unit, without a prefix, and the number
\* is the value multiplied by the factor
ExactUnitMultiplies ==
    (last.op = "repr" /\ ExactUnits(last) # {} /\ last.a.factor # ROne)
    => /\ last.r.case = "defined"
       /\ \E i \in ExactUnits(last) : last.r.symbol = last.env[i].symbol
       /\ last.r.prefix = ""
       /\ last.r.number = RMul(last.a.value, last.a.factor)

\* a force in lb on which the prefix k is set was shown in lb, without prefix
ExactUnitShown ==
    /\ last.op = "repr"
    /\ ExactUnits(last) # {}
    /\ last.a.factor # ROne
    /\ last.a.prefixed = "k"
    /\ last.a.value = RInt(2500)
    /\ last.r.symbol = "lb"
    /\ last.r.prefix = ""

\* a representation under an environment that has units with the dimensions
\* of the quantity, none of them with its factor
IsInexact(call) ==
    /\ call.op = "repr"
    /\ UnitsByDimension(call.env, call.a.dimensions) # <<>>
    /\ ExactUnits(call) = {}

\* the units with the dimensions of the quantity that are marked default
MarkedDefault(call) ==
    {i \in DOMAIN call.env :
        /\ call.env[i].dimensions = call.a.dimensions
        /\ call.env[i].default}

\* the units with the dimensions of the quantity and factor 1
DerivedLike(call) ==
    {i \in DOMAIN call.env :
        /\ call.env[i].dimensions = call.a.dimensions
        /\ call.env[i].factor = ROne}

\* the quantity is shown in a derived unit with the prefix for its value
IsShownDerived(call) ==
    /\ call.r.case = "derived"
    /\ \E i \in DerivedLike(call) : call.r.symbol = call.env[i].symbol
    /\ call.a.prefixed = ""
          => call.r.prefix = PrefixOf(AutoPrefix(Wide(call.a), 1))

Fitting(call) ==
    IF call.r.case = "defined" THEN ExactUnits(call) ELSE DerivedLike(call)

\* C25: when several units of the environment have the same dimensions and
\* the same factor and fit a quantity alike, the quantity is shown in the
\* one the environment file gives first, and as it would be shown were the
\* later ones not in the file
FirstDeclaredIsShown ==
    (last.op = "repr" /\ last.r.case \in {"defined", "derived"})
    => \E i \in Fitting(last) :
          /\ last.r.symbol = last.env[i].symbol
          /\ \A j \in Fitting(last) : i <= j
          /\ last.r = Repr(last.a, SubSeq(last.env, 1, i))

\* a force in lb was shown under an environment that defines lb and then
\* lbf with the same factor
TiedUnitsShown ==
    /\ last.op = "repr"
    /\ last.env = Loaded("ties")
    /\ last.r.case = "defined"
    /\ Cardinality(ExactUnits(last)) = 2
    /\ last.r.symbol = "lb"

\* a representation with the prefix chosen for the value: of a quantity
\* that is not zero, has no prefix set and is shown in a base or derived unit
IsAutoPrefixed(call) ==
    /\ call.op = "repr"
    /\ call.a.prefixed = ""
    /\ call.a.value.n # 0
    /\ call.r.case \in {"base", "derived"}
    /\ call.r.power.d = 1 /\ call.r.power.n >= 1

\* a of value r * 1000^k and factor 1
IsValueOf(a, r, k) == a.value = r /\ ScaleOf(a) = k /\ a.factor = ROne

\* C26: for a unit of power p that takes a prefix and a value v not zero,
\* the prefix 10^e shown is the largest of the table (e a multiple of 3 from
\* -24 to 24) with |v| / 10^(e*p) >= 1, the smallest of the table when there
\* is none, and the number shown is v / 10^(e*p); 1000 m is shown as
\* 1.000 km, 999.999 m without prefix and 2500 kg·m·s⁻² as 2.500 kN when the
\* environment defines N
LargestPrefixNotAbove ==
    IsAutoPrefixed(last)
    => \E t \in {TierOf(last.r.prefix)}, p \in {last.r.power.n} :
          /\ last.r.number = Shift(last.a.value, ScaleOf(last.a) - p * t)
          /\ RAbs(last.r.number).n >= last.r.number.d \/ t = MinTier
          /\ \/ Shift(RAbs(last.r.number), -p).n
                   < Shift(RAbs(last.r.number), -p).d
             \/ t = MaxTier
          /\ (p = 1 /\ IsValueOf(last.a, RInt(1000), 0))
                => last.r.prefix = "k" /\ last.r.number = RInt(1)
          /\ (p = 1 /\ IsValueOf(last.a, Rat(999999, 1000), 0))
                => last.r.prefix = "" /\ last.r.number = Rat(999999, 1000)
          /\ (last.r.case = "derived" /\ IsValueOf(last.a, RInt(2500), 0)
              /\ last.a.dimensions = Dimensions(1, 1, -2, 0, 0, 0, 0))
                => /\ last.r.prefix = "k" /\ last.r.symbol = "N"
                   /\ last.r.number = Rat(5, 2)
          /\ (p = 1 /\ IsValueOf(last.a, RInt(4), 9))
                => last.r.prefix = "Y" /\ last.r.number = RInt(4000)
          /\ (p = 1 /\ IsValueOf(last.a, RInt(4), -9))
                => last.r.prefix = "y" /\ last.r.number = Rat(4, 1000)

\* a force of exactly 1000 kg·m·s⁻² was shown as 1.000 kN
ThousandShownWithPrefix ==
    /\ IsAutoPrefixed(last)
    /\ IsValueOf(last.a, RInt(1000), 0)
    /\ last.r.case = "derived"
    /\ last.r.symbol = "N"
    /\ last.r.prefix = "k"
    /\ last.r.number = RInt(1)

\* C27: a quantity of value exactly 0 in a unit that takes a prefix is shown
\* without a prefix, not with the smallest one of the table, in the unit a
\* quantity of its dimensions and factor is shown in otherwise, with its own
\* precision
ZeroHasNoPrefix ==
    (/\ last.op = "repr"
     /\ last.a.value = RZero /\ last.a.prefixed = ""
     /\ last.r.case \in {"base", "derived"})
    => /\ last.r.prefix = ""
       /\ last.r.number = RZero
       /\ last.r.precision = last.a.precision
       /\ \E one \in {Repr([last.a EXCEPT !.value = ROne], last.env)} :
             /\ last.r.case = one.case
             /\ last.r.parts = one.parts

\* a length of 0 m rounded to 2 places was shown
ZeroShown ==
    /\ last.op = "repr"
    /\ last.a.value = RZero /\ last.a.prefixed = ""
    /\ last.a.precision # DefaultPrecision
    /\ last.r.case = "base"
    /\ last.r.prefix = ""

\* the number shown is the value multiplied by the factor of the unit,
\* scaled by no prefix, after the symbol of the unit alone
IsShownUnprefixed(call, unit) ==
    /\ call.r.prefix = ""
    /\ call.r.symbol = unit.symbol
    /\ call.r.number
          = Shift(RMul(call.a.value, unit.factor), ScaleOf(call.a))

\* C28, as stated: when the unit a quantity is shown in has a factor other
\* than 1, or a prefix is set on the quantity, no prefix is chosen for the
\* value and the number shown is scaled by no prefix
FactorOrOverrideShowsUnprefixed ==
    last.op = "repr"
    => \E unit \in {Resolve(last.a, last.env)} :
          (unit.factor # ROne \/ last.a.prefixed # "")
          => IsShownUnprefixed(last, unit)

\* C28, amended: when the unit a quantity is shown in has a factor other
\* than 1, no prefix is shown, set on the quantity or not, and the number is
\* scaled by no prefix; when a prefix is set on a quantity shown in a unit
\* that takes prefixes, no prefix is chosen for the value: the prefix set is
\* shown and the number is scaled by it
FactorShowsUnprefixed ==
    last.op = "repr"
    => \E unit \in {Resolve(last.a, last.env)} :
          /\ unit.factor # ROne => IsShownUnprefixed(last, unit)
          /\ (last.a.prefixed # "" /\ TakesPrefix(unit))
                => /\ unit.factor = ROne
                   /\ last.r.prefix = last.a.prefixed
                   /\ last.r.symbol = unit.symbol
                   /\ Shift(last.r.number,
                            unit.power.n * TierOf(last.a.prefixed)
                               - ScaleOf(last.a))
                         = last.a.value

\* 4 m on which the prefix k is set was shown as 0.004 km
OverrideShownScaled ==
    /\ last.op = "repr"
    /\ last.a.prefixed = "k"
    /\ last.a.value = RInt(4) /\ ScaleOf(last.a) = 0
    /\ last.r.case = "base" /\ last.r.power = RInt(1)
    /\ last.r.prefix = "k"
    /\ last.r.number = Rat(4, 1000)

\* C29: a quantity on which a prefix of the table is set is shown, and
\* coerced to a float, with its value scaled by that prefix (to the power of
\* the unit) and not by the prefix its value calls for: float of 0.354 m
\* with the prefix m set is 354.0
OverrideScalesNumber ==
    (/\ last.op \in {"repr", "float"}
     /\ last.a.prefixed # ""
     /\ TakesPrefix(Resolve(last.a, last.env)))
    => \E number \in {IF last.op = "repr" THEN last.r.number
                      ELSE last.r.value},
          p \in {Resolve(last.a, last.env).power.n} :
          /\ last.a.prefixed \in {PrefixSymbols[i] : i \in DOMAIN PrefixSymbols}
          /\ number = Shift(last.a.value,
                            ScaleOf(last.a) - p * TierOf(last.a.prefixed))
          /\ (/\ last.op = "float" /\ last.a.prefixed = "m" /\ p = 1
              /\ last.a.value = Rat(354, 1000) /\ ScaleOf(last.a) = 0)
                => last.r = Float(RInt(354))

\* 4 m with the prefix m set, which its value does not call for, was
\* coerced to 4000.0
OverrideCoerced ==
    /\ last.op = "float"
    /\ last.a.prefixed = "m"
    /\ last.a.value = RInt(4) /\ ScaleOf(last.a) = 0
    /\ last.a.dimensions = Dimensions(0, 1, 0, 0, 0, 0, 0)
    /\ last.r = Float(RInt(4000))

\* C30: no environment is active at first; a load that succeeds makes the
\* units of its file the active environment, all of them and no others, and
\* every other step, a load that fails included, leaves the active
\* environment as it is: after any sequence of loads the active environment
\* is the one of the latest load that succeeded, or none
LatestLoadIsActive ==
    /\ environment = <<>>
    /\ [][IF last'.op = "environment" /\ last'.r = None
          THEN environment'
                  = LoadUnits(EnvironmentFiles[last'.a.str], <<>>).units
          ELSE environment' = environment]_vars

\* a load succeeded while another environment was active, and a unit of
\* that environment is no longer active
EnvironmentReplacedSeen ==
    /\ last.op = "environment"
    /\ last.r = None
    /\ last.env # <<>>
    /\ \E i \in DOMAIN last.env :
          \A j \in DOMAIN environment : environment[j] # last.env[i]
    /\ \E j \in DOMAIN environment :
          \A i \in DOMAIN last.env : environment[j] # last.env[i]

====
